---------------------------- MODULE Spec2Model ----------------------------
(***************************************************************************)
(* Portfolio dashboard (proyecto_streamlit): the four Streamlit pages      *)
(*   dashboard_general.py, pages/dashboard_hk.py, pages/dashboard_usa.py,  *)
(*   pages/dashboard_detail.py                                             *)
(* modelled as one script run per page render.  Each run fetches quotes    *)
(* (and, where the page does, the HKD=X rate) from the market-data source, *)
(* values the hard-coded holdings and emits UI elements.  The general      *)
(* page's fetches go through st.cache_data(ttl=3600).  Spec lets renders   *)
(* follow each other at least ttl seconds apart, against every answer of   *)
(* the source; CacheSpec lets them follow at any distance in time, against *)
(* a source that raises or quotes every ticker.                            *)
(*                                                                         *)
(* Amounts are exact rationals n/d kept in lowest terms.  Python computes  *)
(* in binary floating point; rounding error is not modelled.  Share counts *)
(* are kept to two decimals and prices to whole currency units so that     *)
(* every intermediate product fits TLC's 32-bit integers.                  *)
(***************************************************************************)
EXTENDS Integers, Sequences, FiniteSets, TLC

(***************************************************************************)
(* Bounds of the model.                                                    *)
(***************************************************************************)
\* largest number of rows in a fetched price or FX table
MaxRows == 2
\* largest number of requested tickers the source leaves out of its answer
MaxMissing == 1
\* number of steps of the clock in one caching interval
TicksPerInterval == 2

\* @st.cache_data(ttl=3600): seconds a cached result stays valid
ttl == 3600

(***************************************************************************)
(* Values.  A value is a number (k = "num", n/d in lowest terms, d > 0),   *)
(* an empty pandas Series (k = "es"), a non-numeric table cell such as     *)
(* None or a string (k = "obj"), or Python's None (k = "none").            *)
(***************************************************************************)
Abs(x) == IF x < 0 THEN -x ELSE x

RECURSIVE GCD(_, _)
GCD(a, b) == IF b = 0 THEN a ELSE GCD(b, a % b)

Num(n, d) ==
    LET g == GCD(Abs(n), Abs(d))
        s == IF d < 0 THEN -1 ELSE 1
    IN  [k |-> "num", n |-> (s * n) \div g, d |-> (s * d) \div g]

Zero == Num(0, 1)
One == Num(1, 1)
Hundred == Num(100, 1)
ES == [k |-> "es", n |-> 0, d |-> 1]
OBJ == [k |-> "obj", n |-> 0, d |-> 1]
None == [k |-> "none", n |-> 0, d |-> 1]

IsNum(v) == v.k = "num"
IsSeries(v) == v.k = "es"

\* scalar * scalar; an empty Series in an arithmetic operation gives an
\* empty Series (pandas broadcasting)
Mul(a, b) ==
    IF IsSeries(a) \/ IsSeries(b) THEN ES
    ELSE LET g1 == GCD(Abs(a.n), b.d)
             g2 == GCD(Abs(b.n), a.d)
         IN  Num((a.n \div g1) * (b.n \div g2), (a.d \div g2) * (b.d \div g1))

Add(a, b) ==
    IF IsSeries(a) \/ IsSeries(b) THEN ES
    ELSE LET g == GCD(a.d, b.d)
         IN  Num(a.n * (b.d \div g) + b.n * (a.d \div g), (a.d \div g) * b.d)

Neg(a) == IF IsSeries(a) THEN ES ELSE Num(-a.n, a.d)

Sub(a, b) == Add(a, Neg(b))

\* a / b for b a non-zero number
Div(a, b) == Mul(a, Num(b.d, b.n))

\* Series.sum(): the sum of an empty Series is 0
SeriesSum(v) == IF IsSeries(v) THEN Zero ELSE v

\* (current / invested - 1) * 100
Performance(current, invested) == Mul(Sub(Div(current, invested), One), Hundred)

Range(s) == {s[i] : i \in 1..Len(s)}

Pos(s, x) == CHOOSE i \in 1..Len(s) : s[i] = x

(***************************************************************************)
(* Holdings (hard-coded configuration of the pages).                       *)
(***************************************************************************)
portfolio_hk == <<"1211.HK", "0700.HK">>

portfolio_usa == <<"BABA", "ACN", "PDD", "BIDU", "NKE", "DAVA", "VOO", "QQQ", "SPYG">>

shares_owned_hk == ("1211.HK" :> Num(691, 100)) @@ ("0700.HK" :> Num(98, 100))

shares_owned_usa ==
    ("BABA" :> Num(367, 100)) @@ ("ACN" :> Num(44, 100)) @@ ("PDD" :> Num(211, 100)) @@
    ("BIDU" :> Num(45, 100)) @@ ("NKE" :> Num(109, 100)) @@ ("DAVA" :> Num(320, 100)) @@
    ("VOO" :> Num(2, 1)) @@ ("QQQ" :> Num(116, 100)) @@ ("SPYG" :> Num(1, 1))

purchase_prices_hk == ("1211.HK" :> Num(226, 1)) @@ ("0700.HK" :> Num(400, 1))

purchase_prices_usa ==
    ("BABA" :> Num(82, 1)) @@ ("ACN" :> Num(292, 1)) @@ ("PDD" :> Num(142, 1)) @@
    ("BIDU" :> Num(111, 1)) @@ ("NKE" :> Num(91, 1)) @@ ("DAVA" :> Num(31, 1)) @@
    ("VOO" :> Num(471, 1)) @@ ("QQQ" :> Num(445, 1)) @@ ("SPYG" :> Num(72, 1))

cash_available == Num(7777, 100)

\* the one recorded sale: 2.84 shares of 9618.HK sold at 184 HKD
sales_total_hkd == Mul(Num(284, 100), Num(184, 1))

\* `get_fx_rate() or 0.128` and the except branch of the HK page
FallbackRate == Num(128, 1000)

\* USD-to-HKD rate the HK page assumes when the FX table is empty
DefaultUsdToHkd == Num(785, 100)


(***************************************************************************)
(* The market-data source (yfinance), an opaque external service.  A price *)
(* table has a set of ticker columns and a number of rows; cell[t][i] is   *)
(* the adjusted close of ticker t in row i, oldest row first.              *)
(***************************************************************************)
\* pd.DataFrame()
EmptyDF == [cols |-> {}, rows |-> 0, cell |-> [t \in {} |-> <<>>]]

\* DataFrame.empty: some axis has length 0
IsEmpty(df) == df.cols = {} \/ df.rows = 0

\* quotes the source can answer with, as multiples of the purchase price
PriceFactors == <<Num(1, 2), Num(1, 1), Num(3, 2)>>

\* "quote": numeric cells; "object": cells that are not numbers
CellKinds == {"quote", "object"}

Cell(list, prices, t, i, kind) ==
    IF kind = "object" THEN OBJ
    ELSE Mul(prices[t], PriceFactors[((Pos(list, t) + i) % Len(PriceFactors)) + 1])

Frame(list, prices, cols, n, kind) ==
    [cols |-> cols, rows |-> n,
     cell |-> [t \in cols |-> [i \in 1..n |-> Cell(list, prices, t, i, kind)]]]

\* the tables yf.download(list)['Adj Close'] can be
PriceFrames(list, prices) ==
    {EmptyDF} \cup
    {Frame(list, prices, cols, n, kind) :
        cols \in {c \in SUBSET Range(list) : Cardinality(Range(list) \ c) <= MaxMissing},
        n \in 0..MaxRows, kind \in CellKinds}

\* a call of yf.download either raises or answers with a table
PriceResponses(list, prices) ==
    {[raised |-> TRUE, df |-> EmptyDF]} \cup
    {[raised |-> FALSE, df |-> f] : f \in PriceFrames(list, prices)}

NoResponse == [raised |-> FALSE, df |-> EmptyDF]

\* A full table of one symbol, as yf.download(symbol) returns it: rows is its
\* number of rows, adj says whether it has an 'Adj Close' column, close is
\* that column, oldest row first
EmptyTable == [rows |-> 0, adj |-> FALSE, close |-> <<>>]

Tables(series) ==
    {[rows |-> 0, adj |-> a, close |-> <<>>] : a \in BOOLEAN} \cup
    {[rows |-> n, adj |-> FALSE, close |-> <<>>] : n \in 1..MaxRows} \cup
    {[rows |-> n, adj |-> TRUE, close |-> [i \in 1..n |-> series[((i - 1) % Len(series)) + 1]]] :
        n \in 1..MaxRows}

TableResponses(series) ==
    {[raised |-> TRUE, tb |-> EmptyTable]} \cup
    {[raised |-> FALSE, tb |-> t] : t \in Tables(series)}

NoTableResponse == [raised |-> FALSE, tb |-> EmptyTable]

\* USD-to-HKD quotes of HKD=X, oldest row first
FxQuotes == <<Num(75, 10), Num(8, 1)>>

\* yf.download('HKD=X')
FxResponses == TableResponses(FxQuotes)

\* the answers of a source that either raises or quotes every ticker in one row
SteadyPriceResponses(list, prices) ==
    {[raised |-> TRUE, df |-> EmptyDF],
     [raised |-> FALSE, df |-> Frame(list, prices, Range(list), 1, "quote")]}

SteadyTableResponses(series) ==
    {[raised |-> TRUE, tb |-> EmptyTable],
     [raised |-> FALSE, tb |-> [rows |-> 1, adj |-> TRUE, close |-> <<series[1]>>]]}

(***************************************************************************)
(* UI elements a run emits, in order.                                      *)
(***************************************************************************)
Elem(kind, label, value) == [kind |-> kind, label |-> label, value |-> value]

(***************************************************************************)
(* The holdings as the running script sees them: the module-level names    *)
(* the pages assign when a run starts and read while they value the        *)
(* portfolio.                                                              *)
(***************************************************************************)
VARIABLE holdings

(***************************************************************************)
(* dashboard_general.py                                                    *)
(***************************************************************************)
\* download_data of the general page: the table as fetched, a warning when it
\* is empty, an error and pd.DataFrame() when the fetch raises
general_download_data(resp) ==
    IF resp.raised
    THEN [data |-> EmptyDF, ui |-> <<Elem("error", "Error downloading data", None)>>]
    ELSE [data |-> resp.df,
          ui |-> IF IsEmpty(resp.df)
                 THEN <<Elem("warning", "No data available", None)>>
                 ELSE <<>>]

\* get_fx_rate of the general page: 1 / last rate, or None
general_get_fx_rate(resp) ==
    IF resp.raised THEN None
    ELSE IF resp.tb.rows > 0 /\ resp.tb.adj
         THEN Div(One, resp.tb.close[resp.tb.rows])
         ELSE None

\* fx_rate_hkd_to_usd = get_fx_rate() or 0.128, r what get_fx_rate() returned
general_fx_rate(r) == IF r.k = "none" THEN FallbackRate ELSE r

\* One entry of the store behind @st.cache_data(ttl=3600): the value a call
\* returned (with the elements it emitted, which are replayed) and its age in
\* seconds
NoData == [data |-> EmptyDF, ui |-> <<>>]

NoEntry(v) == [stored |-> FALSE, age |-> 0, value |-> v]

NoCache == [hk |-> NoEntry(NoData), usa |-> NoEntry(NoData), fx |-> NoEntry(None)]

\* the entry answers the call: it exists and is younger than ttl
Hit(entry) == entry.stored /\ entry.age < ttl

\* what the decorated function returns: the stored value on a hit, else the
\* value computed by running the function
cache_data_value(entry, computed) == IF Hit(entry) THEN entry.value ELSE computed

\* the entry after the call
cache_data_entry(entry, computed) ==
    IF Hit(entry) THEN entry ELSE [stored |-> TRUE, age |-> 0, value |-> computed]

\* sum(shares[t] * purchase[t] * mult for t in list), from position i on
RECURSIVE InvestedSum(_, _, _, _, _)
InvestedSum(list, shares, purchase, mult, i) ==
    IF i > Len(list) THEN Zero
    ELSE Add(Mul(Mul(shares[list[i]], purchase[list[i]]), mult),
             InvestedSum(list, shares, purchase, mult, i + 1))

\* price = frame[ticker]; price.iloc[-1] when the Series is not empty, else
\* the (empty) Series itself
general_current_price(frame, t) ==
    IF frame.rows > 0 THEN frame.cell[t][frame.rows] ELSE ES

\* the price the fallback branch substitutes
general_fallback_price(purchase, t) == purchase[t]

\* general_loop_step with `total = ...` where the code has `total += ...`
general_loop_step_overwrite(shares, purchase, frame, mult, t, acc) ==
    IF t \notin frame.cols
    THEN [acc EXCEPT !.total = Mul(Mul(shares[t], general_fallback_price(purchase, t)), mult),
                     !.ui = Append(@, Elem("warning", t, None))]
    ELSE LET current_price == general_current_price(frame, t)
         IN  IF current_price.k = "obj"
             THEN [acc EXCEPT !.exc = "TypeError"]
             ELSE [acc EXCEPT !.total = Mul(Mul(shares[t], current_price), mult)]

\* one pass of the `for ticker in portfolio` loop; acc = [total, ui, exc]
general_loop_step(shares, purchase, frame, mult, t, acc) ==
    IF t \notin frame.cols
    THEN \* KeyError: warn, value the ticker at its purchase price
         [acc EXCEPT !.total = Add(@, Mul(Mul(shares[t], general_fallback_price(purchase, t)), mult)),
                     !.ui = Append(@, Elem("warning", t, None))]
    ELSE LET current_price == general_current_price(frame, t)
         IN  IF current_price.k = "obj"
             THEN \* float * non-number: TypeError, not caught by the inner try
                  [acc EXCEPT !.exc = "TypeError"]
             ELSE [acc EXCEPT !.total = Add(@, Mul(Mul(shares[t], current_price), mult))]

RECURSIVE general_loop(_, _, _, _, _, _, _)
general_loop(list, shares, purchase, frame, mult, i, acc) ==
    IF i > Len(list) \/ acc.exc # "none" THEN acc
    ELSE general_loop(list, shares, purchase, frame, mult, i + 1,
                      general_loop_step(shares, purchase, frame, mult, list[i], acc))

\* 0 if invested == 0 else (current / invested - 1) * 100
general_performance(current, invested) ==
    IF invested = Zero THEN Zero ELSE Performance(current, invested)

\* the dictionary returned on the except branch
general_error_metrics ==
    [total_invested |-> Zero, total_current_hk |-> Zero, total_current_usa |-> Zero,
     total_current |-> Zero, performance_hk |-> Zero, performance_usa |-> Zero]

\* calculate_portfolio_metrics whose except branch keeps what was computed
\* before the exception
calculate_portfolio_metrics_partial(prices_hk, prices_usa, fx) ==
    LET invested_hk == InvestedSum(holdings.portfolio_hk, holdings.shares_owned_hk,
                                   holdings.purchase_prices_hk, fx, 1)
        hk == general_loop(holdings.portfolio_hk, holdings.shares_owned_hk,
                           holdings.purchase_prices_hk, prices_hk, fx, 1,
                           [total |-> Zero, ui |-> <<>>, exc |-> "none"])
        invested_usa == InvestedSum(holdings.portfolio_usa, holdings.shares_owned_usa,
                                    holdings.purchase_prices_usa, One, 1)
        usa == general_loop(holdings.portfolio_usa, holdings.shares_owned_usa,
                            holdings.purchase_prices_usa, prices_usa, One, 1,
                            [total |-> Zero, ui |-> hk.ui, exc |-> hk.exc])
    IN  IF usa.exc # "none"
        THEN [metrics |-> [general_error_metrics EXCEPT
                              !.total_invested = Add(invested_hk, invested_usa),
                              !.total_current_hk = hk.total],
              ui |-> Append(usa.ui, Elem("error", "Error calculating portfolio metrics", None))]
        ELSE [metrics |->
                [total_invested |-> Add(invested_hk, invested_usa),
                 total_current_hk |-> hk.total,
                 total_current_usa |-> usa.total,
                 total_current |-> Add(hk.total, usa.total),
                 performance_hk |-> general_performance(hk.total, invested_hk),
                 performance_usa |-> general_performance(usa.total, invested_usa)],
              ui |-> usa.ui]

\* calculate_portfolio_metrics(): [metrics, ui]
calculate_portfolio_metrics(prices_hk, prices_usa, fx) ==
    LET invested_hk == InvestedSum(holdings.portfolio_hk, holdings.shares_owned_hk,
                                   holdings.purchase_prices_hk, fx, 1)
        hk == general_loop(holdings.portfolio_hk, holdings.shares_owned_hk,
                           holdings.purchase_prices_hk, prices_hk, fx, 1,
                           [total |-> Zero, ui |-> <<>>, exc |-> "none"])
        invested_usa == InvestedSum(holdings.portfolio_usa, holdings.shares_owned_usa,
                                    holdings.purchase_prices_usa, One, 1)
        usa == general_loop(holdings.portfolio_usa, holdings.shares_owned_usa,
                            holdings.purchase_prices_usa, prices_usa, One, 1,
                            [total |-> Zero, ui |-> hk.ui, exc |-> hk.exc])
    IN  IF usa.exc # "none"
        THEN [metrics |-> general_error_metrics,
              ui |-> Append(usa.ui, Elem("error", "Error calculating portfolio metrics", None))]
        ELSE [metrics |->
                [total_invested |-> Add(invested_hk, invested_usa),
                 total_current_hk |-> hk.total,
                 total_current_usa |-> usa.total,
                 total_current |-> Add(hk.total, usa.total),
                 performance_hk |-> general_performance(hk.total, invested_hk),
                 performance_usa |-> general_performance(usa.total, invested_usa)],
              ui |-> usa.ui]

\* x.sum() if isinstance(x, pd.Series) else x
SumIfSeries(v) == IF IsSeries(v) THEN SeriesSum(v) ELSE v

\* the "Total Return" expression of the first metric column
general_total_return(m) ==
    Performance(SumIfSeries(m.total_current), SumIfSeries(m.total_invested))

\* the rest of the script after `metrics = calculate_portfolio_metrics()`:
\* the four metrics, the two charts and the sales table; [ui, exc]
general_render(m, fx) ==
    IF SumIfSeries(m.total_invested) = Zero
    THEN \* 0 / 0 while the Total Return text is built
         [ui |-> <<>>, exc |-> "ZeroDivisionError"]
    ELSE LET head == <<Elem("metric", "Total Return", general_total_return(m)),
                       Elem("metric", "Total Investment", m.total_invested)>>
         IN  IF IsSeries(m.total_current)
             THEN \* a Series does not accept the format ",.2f"
                  [ui |-> head, exc |-> "TypeError"]
             ELSE [ui |-> head \o
                     <<Elem("metric", "Current Value", Add(m.total_current, cash_available)),
                       Elem("metric", "Available Cash", cash_available),
                       Elem("chart", "Portfolio Distribution", m.total_current_hk),
                       Elem("chart", "Performance by Market", m.performance_hk),
                       Elem("dataframe", "Sales Record", Mul(sales_total_hkd, fx))>>,
                   exc |-> "none"]

NoMetrics ==
    [total_invested |-> None, total_current_hk |-> None, total_current_usa |-> None,
     total_current |-> None, performance_hk |-> None, performance_usa |-> None]

(***************************************************************************)
(* pages/dashboard_hk.py and pages/dashboard_usa.py                        *)
(***************************************************************************)
\* download_data of the HK, USA pages: pd.DataFrame() unless a non-empty
\* table was fetched
page_download_data(resp) ==
    IF resp.raised \/ IsEmpty(resp.df) THEN EmptyDF ELSE resp.df

\* get_fx_rate of the HK page
hk_get_fx_rate(resp) ==
    IF resp.raised THEN FallbackRate
    ELSE IF resp.tb.rows = 0 THEN Div(One, DefaultUsdToHkd)
    ELSE IF ~resp.tb.adj THEN FallbackRate     \* KeyError, caught
    ELSE Div(One, resp.tb.close[1])

Row(t, shares, purchase, current, invested, value, perf) ==
    [Ticker |-> t, shares |-> shares, purchase_price |-> purchase, current_price |-> current,
     invested_value |-> invested, current_value |-> value, performance |-> perf]

\* the values the HK page computes for one ticker (invested value not 0)
hk_value_row(t, shares, purchase_price, current_price, fx) ==
    LET purchase_price_usd == Mul(purchase_price, fx)
        current_price_usd == Mul(current_price, fx)
        invested_value == Mul(shares, purchase_price_usd)
        current_value == Mul(shares, current_price_usd)
    IN  Row(t, shares, purchase_price_usd, current_price_usd, invested_value, current_value,
            Performance(current_value, invested_value))

\* one pass of the HK page's loop; acc = [rows, exc]
hk_loop_step(frame, fx, t, acc) ==
    IF t \notin frame.cols THEN [acc EXCEPT !.exc = "KeyError"]
    ELSE IF frame.cell[t][1].k = "obj" THEN [acc EXCEPT !.exc = "TypeError"]
    ELSE IF Mul(holdings.shares_owned_hk[t], Mul(holdings.purchase_prices_hk[t], fx)) = Zero
         THEN \* division by an invested value of 0
              [acc EXCEPT !.exc = "ZeroDivisionError"]
         ELSE [acc EXCEPT !.rows = Append(@,
                 hk_value_row(t, holdings.shares_owned_hk[t], holdings.purchase_prices_hk[t],
                              frame.cell[t][1], fx))]

RECURSIVE hk_loop(_, _, _, _)
hk_loop(frame, fx, i, acc) ==
    IF i > Len(holdings.portfolio_hk) \/ acc.exc # "none" THEN acc
    ELSE hk_loop(frame, fx, i + 1, hk_loop_step(frame, fx, holdings.portfolio_hk[i], acc))

\* current_prices_usa[ticker].iloc[0] if ticker in current_prices_usa else 0
usa_current_price(frame, t) ==
    IF t \in frame.cols THEN frame.cell[t][1] ELSE Zero

\* ((current / invested) - 1) * 100 if invested > 0 else 0
usa_performance(current, invested) ==
    IF invested.n > 0 THEN Performance(current, invested) ELSE Zero

\* usa_value_row with the current value computed from the purchase price
usa_value_row_purchase(t, shares, purchase_price, current_price) ==
    LET invested_value == Mul(shares, purchase_price)
        current_value == Mul(shares, purchase_price)
    IN  Row(t, shares, purchase_price, current_price, invested_value, current_value,
            usa_performance(current_value, invested_value))

\* the values the USA page computes for one ticker
usa_value_row(t, shares, purchase_price, current_price) ==
    LET invested_value == Mul(shares, purchase_price)
        current_value == Mul(shares, current_price)
    IN  Row(t, shares, purchase_price, current_price, invested_value, current_value,
            usa_performance(current_value, invested_value))

\* one pass of the USA page's loop; acc = [rows, exc]
usa_loop_step(frame, t, acc) ==
    LET current_price == usa_current_price(frame, t)
    IN  IF current_price.k = "obj" THEN [acc EXCEPT !.exc = "TypeError"]
        ELSE [acc EXCEPT !.rows = Append(@,
                usa_value_row(t, holdings.shares_owned_usa[t],
                              holdings.purchase_prices_usa[t], current_price))]

RECURSIVE usa_loop(_, _, _)
usa_loop(frame, i, acc) ==
    IF i > Len(holdings.portfolio_usa) \/ acc.exc # "none" THEN acc
    ELSE usa_loop(frame, i + 1, usa_loop_step(frame, holdings.portfolio_usa[i], acc))

\* df[column].sum() over the rows of portfolio_data, from row i on
RECURSIVE ColumnSum(_, _, _)
ColumnSum(rows, column, i) ==
    IF i > Len(rows) THEN Zero
    ELSE Add(rows[i][column], ColumnSum(rows, column, i + 1))

Totals(invested, current, perf) ==
    [total_invested |-> invested, total_current |-> current, total_performance |-> perf]

NoTotals == Totals(None, None, None)

\* "Calculate totals" of the HK page; [totals, exc]
hk_totals(rows) ==
    LET total_invested == ColumnSum(rows, "invested_value", 1)
        total_current == ColumnSum(rows, "current_value", 1)
    IN  IF total_invested = Zero
        THEN [totals |-> NoTotals, exc |-> "ZeroDivisionError"]
        ELSE [totals |-> Totals(total_invested, total_current,
                                Performance(total_current, total_invested)),
              exc |-> "none"]

\* mean of df[column] over the rows
ColumnMean(rows, column) == Div(ColumnSum(rows, column, 1), Num(Len(rows), 1))

\* usa_totals with the total performance taken as the mean of the rows'
\* percentages
usa_totals_mean(rows) ==
    Totals(ColumnSum(rows, "invested_value", 1), ColumnSum(rows, "current_value", 1),
           ColumnMean(rows, "performance"))

\* "Calculate totals" of the USA page
usa_totals(rows) ==
    LET total_invested == ColumnSum(rows, "invested_value", 1)
        total_current == ColumnSum(rows, "current_value", 1)
    IN  Totals(total_invested, total_current, usa_performance(total_current, total_invested))

\* the summary metrics, the three charts and the details table of a market page
page_render(t) ==
    <<Elem("metric", "Total Invested", t.total_invested),
      Elem("metric", "Current Value", t.total_current),
      Elem("metric", "Performance", t.total_performance),
      Elem("chart", "Portfolio Distribution", None),
      Elem("chart", "Performance by Stock", None),
      Elem("chart", "Invested vs Current Value", None),
      Elem("dataframe", "Portfolio Details", None)>>

LoadError == Elem("error", "Error loading data. Please try again later.", None)

(***************************************************************************)
(* pages/dashboard_detail.py                                               *)
(***************************************************************************)
portfolio ==
    <<"BABA", "ACN", "PDD", "BIDU", "NKE", "DAVA", "VOO", "QQQ", "SPYG", "1211.HK", "0700.HK">>

Lot(shares, price) == [shares |-> shares, price |-> price]

\* purchase lots per ticker (dates are display-only and left out)
positions ==
    ("VOO" :> <<Lot(Num(48, 100), Num(456, 1)), Lot(Num(152, 100), Num(476, 1))>>) @@
    ("QQQ" :> <<Lot(Num(11, 100), Num(438, 1)), Lot(Num(89, 100), Num(448, 1)),
                Lot(Num(16, 100), Num(434, 1))>>) @@
    ("BABA" :> <<Lot(Num(367, 100), Num(82, 1))>>) @@
    ("ACN" :> <<Lot(Num(44, 100), Num(292, 1))>>) @@
    ("PDD" :> <<Lot(Num(211, 100), Num(142, 1))>>) @@
    ("BIDU" :> <<Lot(Num(45, 100), Num(111, 1))>>) @@
    ("NKE" :> <<Lot(Num(109, 100), Num(91, 1))>>) @@
    ("DAVA" :> <<Lot(Num(320, 100), Num(31, 1))>>) @@
    ("SPYG" :> <<Lot(Num(1, 1), Num(72, 1))>>) @@
    ("1211.HK" :> <<Lot(Num(691, 100), Num(226, 1))>>) @@
    ("0700.HK" :> <<Lot(Num(98, 100), Num(400, 1))>>)

\* the holdings as the scripts assign them at the start of a run
Holdings ==
    [portfolio_hk |-> portfolio_hk, portfolio_usa |-> portfolio_usa,
     shares_owned_hk |-> shares_owned_hk, shares_owned_usa |-> shares_owned_usa,
     purchase_prices_hk |-> purchase_prices_hk, purchase_prices_usa |-> purchase_prices_usa,
     portfolio |-> portfolio, positions |-> positions]

\* adjusted closes the source can answer with for ticker t, oldest row first,
\* in the ticker's native currency
HistoryQuotes(t) ==
    [i \in 1..Len(PriceFactors) |-> Mul(positions[t][1].price, PriceFactors[i])]

SpyQuotes == <<Num(500, 1)>>

\* download_data of the detail page
detail_download_data(resp) ==
    IF resp.raised \/ resp.tb.rows = 0 THEN EmptyTable ELSE resp.tb

\* sum([pos['shares'] for pos in lots]), from lot i on
RECURSIVE SharesSum(_, _)
SharesSum(lots, i) ==
    IF i > Len(lots) THEN Zero ELSE Add(lots[i].shares, SharesSum(lots, i + 1))

\* sum([pos['shares'] * pos['price'] for pos in lots]), from lot i on
RECURSIVE LotsInvested(_, _)
LotsInvested(lots, i) ==
    IF i > Len(lots) THEN Zero
    ELSE Add(Mul(lots[i].shares, lots[i].price), LotsInvested(lots, i + 1))

\* "Calculate total shares and values" of the detail page; [totals, exc]
detail_totals(lots, current_price) ==
    LET total_shares == SharesSum(lots, 1)
        total_invested == LotsInvested(lots, 1)
        current_value == Mul(total_shares, current_price)
    IN  IF total_invested = Zero
        THEN [totals |-> NoTotals, exc |-> "ZeroDivisionError"]
        ELSE [totals |-> Totals(total_invested, current_value,
                                Performance(current_value, total_invested)),
              exc |-> "none"]

\* one row of stock_data; acc = [rows, exc]
detail_loop_step(t, current_price, pos, acc) ==
    LET current_value_pos == Mul(pos.shares, current_price)
        invested_value_pos == Mul(pos.shares, pos.price)
    IN  IF invested_value_pos = Zero
        THEN [acc EXCEPT !.exc = "ZeroDivisionError"]
        ELSE [acc EXCEPT !.rows = Append(@,
                Row(t, pos.shares, pos.price, current_price, invested_value_pos,
                    current_value_pos, Performance(current_value_pos, invested_value_pos)))]

RECURSIVE detail_loop(_, _, _, _, _)
detail_loop(t, current_price, lots, i, acc) ==
    IF i > Len(lots) \/ acc.exc # "none" THEN acc
    ELSE detail_loop(t, current_price, lots, i + 1,
                     detail_loop_step(t, current_price, lots[i], acc))

\* the summary metrics, the two charts and the lots table of the detail page
detail_render(t) ==
    <<Elem("metric", "Total Invested", t.total_invested),
      Elem("metric", "Current Value", t.total_current),
      Elem("metric", "Performance", t.total_performance),
      Elem("chart", "Historical Price", None),
      Elem("chart", "Investment Comparison", None),
      Elem("dataframe", "Stock Details", None)>>

(***************************************************************************)
(* State.                                                                  *)
(***************************************************************************)
VARIABLES
    page,                \* the page whose script is running, or "none"
    pc,                  \* position of the run
    source,              \* what the market-data source answers in this run
    current_prices_hk,   \* table returned by download_data(portfolio_hk)
    current_prices_usa,  \* table returned by download_data(portfolio_usa)
    fx_rate_hkd_to_usd,  \* HKD-to-USD multiplier of the run
    metrics,             \* result of calculate_portfolio_metrics
    selected_ticker,     \* the detail page's selectbox
    historical_data,     \* download_data(selected_ticker) of the detail page
    spy_data,            \* download_data('SPY') of the detail page
    portfolio_data,      \* rows built by a market page (stock_data on the detail page)
    totals,              \* totals of a market page or of the detail page
    ui,                  \* UI elements emitted so far
    exc,                 \* exception that ended the run, or "none"
    cache,               \* the st.cache_data store of the general page's two functions
    since,               \* per query: seconds since the source was last asked, up to ttl
    refetched            \* queries this run sent although asked less than ttl ago

vars == <<page, pc, source, current_prices_hk, current_prices_usa, fx_rate_hkd_to_usd,
          metrics, selected_ticker, historical_data, spy_data, portfolio_data, totals,
          ui, exc, cache, since, refetched, holdings>>

\* the queries the pages send to the source: the two ticker lists and HKD=X
\* (period 1d), SPY and the single tickers of the detail page (period 1y)
Queries == {"portfolio_hk", "portfolio_usa", "HKD=X", "SPY"} \cup Range(portfolio)

\* no query was sent during the last ttl seconds
LongAgo == [q \in Queries |-> ttl]

\* the source is asked the queries Q now
Asked(Q) == [q \in Queries |-> IF q \in Q THEN 0 ELSE since[q]]

\* those of Q the source answered less than ttl seconds ago
Early(Q) == {q \in Q : since[q] < ttl}

NoSource ==
    [hk |-> NoResponse, usa |-> NoResponse, fx |-> NoTableResponse,
     hist |-> NoTableResponse, spy |-> NoTableResponse]

Fresh ==
    /\ page = "none"
    /\ pc = "idle"
    /\ source = NoSource
    /\ current_prices_hk = EmptyDF
    /\ current_prices_usa = EmptyDF
    /\ fx_rate_hkd_to_usd = None
    /\ metrics = NoMetrics
    /\ selected_ticker = "none"
    /\ historical_data = EmptyTable
    /\ spy_data = EmptyTable
    /\ portfolio_data = <<>>
    /\ totals = NoTotals
    /\ ui = <<>>
    /\ exc = "none"
    /\ cache = NoCache
    /\ since = LongAgo
    /\ refetched = {}
    /\ holdings = Holdings

Init == Fresh

(***************************************************************************)
(* dashboard_general.py, run top to bottom.                                *)
(***************************************************************************)
\* lines 127-129: the three fetches of the general page, each through
\* st.cache_data; HK, USA, FX are the answers the source can give
GeneralDownloadFrom(HK, USA, FX) ==
    /\ pc = "idle"
    /\ holdings' = Holdings
    /\ \E rhk \in (IF Hit(cache.hk) THEN {NoResponse} ELSE HK),
          rusa \in (IF Hit(cache.usa) THEN {NoResponse} ELSE USA),
          rfx \in (IF Hit(cache.fx) THEN {NoTableResponse} ELSE FX) :
          LET hk == cache_data_value(cache.hk, general_download_data(rhk))
              usa == cache_data_value(cache.usa, general_download_data(rusa))
              fx == cache_data_value(cache.fx, general_get_fx_rate(rfx))
              sent == {q \in {"portfolio_hk", "portfolio_usa", "HKD=X"} :
                          \/ q = "portfolio_hk" /\ ~Hit(cache.hk)
                          \/ q = "portfolio_usa" /\ ~Hit(cache.usa)
                          \/ q = "HKD=X" /\ ~Hit(cache.fx)}
          IN  /\ source' = [NoSource EXCEPT !.hk = rhk, !.usa = rusa, !.fx = rfx]
              /\ current_prices_hk' = hk.data
              /\ current_prices_usa' = usa.data
              /\ fx_rate_hkd_to_usd' = general_fx_rate(fx)
              /\ ui' = hk.ui \o usa.ui
              /\ cache' = [hk |-> cache_data_entry(cache.hk, hk),
                           usa |-> cache_data_entry(cache.usa, usa),
                           fx |-> cache_data_entry(cache.fx, fx)]
              /\ since' = Asked(sent)
              /\ refetched' = Early(sent)
    /\ page' = "general"
    /\ pc' = "calculate"
    /\ UNCHANGED <<metrics, selected_ticker, historical_data, spy_data, portfolio_data,
                   totals, exc>>

GeneralDownload ==
    GeneralDownloadFrom(PriceResponses(portfolio_hk, purchase_prices_hk),
                        PriceResponses(portfolio_usa, purchase_prices_usa), FxResponses)

\* GeneralCalculate whose loop writes the price it valued a ticker at back
\* into purchase_prices_usa
GeneralCalculate_StoresPrice ==
    /\ page = "general" /\ pc = "calculate"
    /\ LET r == calculate_portfolio_metrics(current_prices_hk, current_prices_usa,
                                            fx_rate_hkd_to_usd)
       IN  /\ metrics' = r.metrics
           /\ ui' = ui \o r.ui
    /\ pc' = "render"
    /\ holdings' =
          [holdings EXCEPT !.purchase_prices_usa =
              [t \in DOMAIN @ |->
                  IF t \in current_prices_usa.cols /\ current_prices_usa.rows > 0
                  THEN current_prices_usa.cell[t][current_prices_usa.rows]
                  ELSE @[t]]]
    /\ UNCHANGED <<page, source, current_prices_hk, current_prices_usa, fx_rate_hkd_to_usd,
                   selected_ticker, historical_data, spy_data, portfolio_data, totals, exc>>
    /\ UNCHANGED <<cache, since, refetched>>

\* line 201: metrics = calculate_portfolio_metrics()
GeneralCalculate ==
    /\ page = "general" /\ pc = "calculate"
    /\ LET r == calculate_portfolio_metrics(current_prices_hk, current_prices_usa,
                                            fx_rate_hkd_to_usd)
       IN  /\ metrics' = r.metrics
           /\ ui' = ui \o r.ui
    /\ pc' = "render"
    /\ UNCHANGED <<page, source, current_prices_hk, current_prices_usa, fx_rate_hkd_to_usd,
                   selected_ticker, historical_data, spy_data, portfolio_data, totals, exc>>
    /\ UNCHANGED <<cache, since, refetched, holdings>>

\* lines 204-314: the widgets of the general page
GeneralRender ==
    /\ page = "general" /\ pc = "render"
    /\ LET r == general_render(metrics, fx_rate_hkd_to_usd)
       IN  /\ ui' = ui \o r.ui
           /\ exc' = r.exc
           /\ pc' = IF r.exc = "none" THEN "done" ELSE "raised"
    /\ UNCHANGED <<page, source, current_prices_hk, current_prices_usa, fx_rate_hkd_to_usd,
                   metrics, selected_ticker, historical_data, spy_data, portfolio_data,
                   totals>>
    /\ UNCHANGED <<cache, since, refetched, holdings>>

(***************************************************************************)
(* pages/dashboard_hk.py: main()                                           *)
(***************************************************************************)
\* lines 111-112: the two fetches of the HK page, not cached
HKDownloadFrom(HK, FX) ==
    /\ pc = "idle"
    /\ holdings' = Holdings
    /\ \E rhk \in HK, rfx \in FX :
          /\ source' = [NoSource EXCEPT !.hk = rhk, !.fx = rfx]
          /\ current_prices_hk' = page_download_data(rhk)
          /\ fx_rate_hkd_to_usd' = hk_get_fx_rate(rfx)
    /\ since' = Asked({"portfolio_hk", "HKD=X"})
    /\ refetched' = Early({"portfolio_hk", "HKD=X"})
    /\ page' = "hk"
    /\ pc' = "process"
    /\ UNCHANGED <<current_prices_usa, metrics, selected_ticker, historical_data, spy_data,
                   portfolio_data, totals, ui, exc, cache>>

HKDownload == HKDownloadFrom(PriceResponses(portfolio_hk, purchase_prices_hk), FxResponses)

\* HKProcess without the `return` after st.error
HKProcess_NoReturn ==
    /\ page = "hk" /\ pc = "process"
    /\ LET r == hk_loop(current_prices_hk, fx_rate_hkd_to_usd, 1,
                        [rows |-> <<>>, exc |-> "none"])
       IN  /\ ui' = IF IsEmpty(current_prices_hk) THEN Append(ui, LoadError) ELSE ui
           /\ portfolio_data' = r.rows
           /\ exc' = r.exc
           /\ pc' = IF r.exc = "none" THEN "totals" ELSE "raised"
    /\ UNCHANGED <<page, source, current_prices_hk, current_prices_usa, fx_rate_hkd_to_usd,
                   metrics, selected_ticker, historical_data, spy_data, totals>>
    /\ UNCHANGED <<cache, since, refetched, holdings>>

\* lines 114-138: the empty check and the per-ticker loop
HKProcess ==
    /\ page = "hk" /\ pc = "process"
    /\ IF IsEmpty(current_prices_hk)
       THEN /\ ui' = Append(ui, LoadError)
            /\ pc' = "stopped"
            /\ UNCHANGED <<portfolio_data, exc>>
       ELSE LET r == hk_loop(current_prices_hk, fx_rate_hkd_to_usd, 1,
                             [rows |-> <<>>, exc |-> "none"])
            IN  /\ portfolio_data' = r.rows
                /\ exc' = r.exc
                /\ pc' = IF r.exc = "none" THEN "totals" ELSE "raised"
                /\ UNCHANGED ui
    /\ UNCHANGED <<page, source, current_prices_hk, current_prices_usa, fx_rate_hkd_to_usd,
                   metrics, selected_ticker, historical_data, spy_data, totals>>
    /\ UNCHANGED <<cache, since, refetched, holdings>>

\* lines 140-180: the totals and the widgets
HKTotals ==
    /\ page = "hk" /\ pc = "totals"
    /\ LET r == hk_totals(portfolio_data)
       IN  /\ totals' = r.totals
           /\ exc' = r.exc
           /\ ui' = IF r.exc = "none" THEN ui \o page_render(r.totals) ELSE ui
           /\ pc' = IF r.exc = "none" THEN "done" ELSE "raised"
    /\ UNCHANGED <<page, source, current_prices_hk, current_prices_usa, fx_rate_hkd_to_usd,
                   metrics, selected_ticker, historical_data, spy_data, portfolio_data>>
    /\ UNCHANGED <<cache, since, refetched, holdings>>

(***************************************************************************)
(* pages/dashboard_usa.py: main()                                          *)
(***************************************************************************)
\* line 125: the fetch of the USA page, not cached
USADownloadFrom(USA) ==
    /\ pc = "idle"
    /\ holdings' = Holdings
    /\ \E rusa \in USA :
          /\ source' = [NoSource EXCEPT !.usa = rusa]
          /\ current_prices_usa' = page_download_data(rusa)
    /\ since' = Asked({"portfolio_usa"})
    /\ refetched' = Early({"portfolio_usa"})
    /\ page' = "usa"
    /\ pc' = "process"
    /\ UNCHANGED <<current_prices_hk, fx_rate_hkd_to_usd, metrics, selected_ticker,
                   historical_data, spy_data, portfolio_data, totals, ui, exc, cache>>

USADownload == USADownloadFrom(PriceResponses(portfolio_usa, purchase_prices_usa))

\* lines 127-151: the empty check and the per-ticker loop
USAProcess ==
    /\ page = "usa" /\ pc = "process"
    /\ IF IsEmpty(current_prices_usa)
       THEN /\ ui' = Append(ui, LoadError)
            /\ pc' = "stopped"
            /\ UNCHANGED <<portfolio_data, exc>>
       ELSE LET r == usa_loop(current_prices_usa, 1, [rows |-> <<>>, exc |-> "none"])
            IN  /\ portfolio_data' = r.rows
                /\ exc' = r.exc
                /\ pc' = IF r.exc = "none" THEN "totals" ELSE "raised"
                /\ UNCHANGED ui
    /\ UNCHANGED <<page, source, current_prices_hk, current_prices_usa, fx_rate_hkd_to_usd,
                   metrics, selected_ticker, historical_data, spy_data, totals>>
    /\ UNCHANGED <<cache, since, refetched, holdings>>

\* lines 153-200: the totals and the widgets
USATotals ==
    /\ page = "usa" /\ pc = "totals"
    /\ totals' = usa_totals(portfolio_data)
    /\ ui' = ui \o page_render(usa_totals(portfolio_data))
    /\ pc' = "done"
    /\ UNCHANGED <<page, source, current_prices_hk, current_prices_usa, fx_rate_hkd_to_usd,
                   metrics, selected_ticker, historical_data, spy_data, portfolio_data, exc>>
    /\ UNCHANGED <<cache, since, refetched, holdings>>

(***************************************************************************)
(* pages/dashboard_detail.py: main()                                       *)
(***************************************************************************)
\* lines 108-112: the selectbox and the two fetches of the detail page, not
\* cached; T are the tickers the user can have selected, HIST[t] the answers
\* the source can give for ticker t and SPY those it can give for SPY
DetailDownloadFrom(T, HIST, SPY) ==
    /\ pc = "idle"
    /\ holdings' = Holdings
    /\ \E t \in T :
       \E rh \in HIST[t], rs \in SPY :
          /\ selected_ticker' = t
          /\ source' = [NoSource EXCEPT !.hist = rh, !.spy = rs]
          /\ historical_data' = detail_download_data(rh)
          /\ spy_data' = detail_download_data(rs)
          /\ since' = Asked({t, "SPY"})
          /\ refetched' = Early({t, "SPY"})
    /\ page' = "detail"
    /\ pc' = "process"
    /\ UNCHANGED <<current_prices_hk, current_prices_usa, fx_rate_hkd_to_usd, metrics,
                   portfolio_data, totals, ui, exc, cache>>

DetailDownload ==
    DetailDownloadFrom(Range(portfolio),
                       [t \in Range(portfolio) |-> TableResponses(HistoryQuotes(t))],
                       TableResponses(SpyQuotes))

\* lines 114-169: the empty check, the totals, the lots table and the widgets
DetailProcess ==
    /\ page = "detail" /\ pc = "process"
    /\ IF historical_data.rows = 0 \/ spy_data.rows = 0
       THEN /\ ui' = Append(ui, LoadError)
            /\ pc' = "stopped"
            /\ UNCHANGED <<portfolio_data, totals, exc>>
       ELSE IF ~historical_data.adj
       THEN \* historical_data['Adj Close']: KeyError
            /\ exc' = "KeyError"
            /\ pc' = "raised"
            /\ UNCHANGED <<portfolio_data, totals, ui>>
       ELSE LET lots == holdings.positions[selected_ticker]
                current_price == historical_data.close[historical_data.rows]
                t == detail_totals(lots, current_price)
                r == detail_loop(selected_ticker, current_price, lots, 1,
                                 [rows |-> <<>>, exc |-> t.exc])
            IN  /\ totals' = t.totals
                /\ portfolio_data' = r.rows
                /\ exc' = r.exc
                /\ ui' = IF r.exc = "none" THEN ui \o detail_render(t.totals) ELSE ui
                /\ pc' = IF r.exc = "none" THEN "done" ELSE "raised"
    /\ UNCHANGED <<page, source, current_prices_hk, current_prices_usa, fx_rate_hkd_to_usd,
                   metrics, selected_ticker, historical_data, spy_data>>
    /\ UNCHANGED <<cache, since, refetched, holdings>>

\* the end of a run: the next render starts from a fresh script state
ScriptEnd ==
    /\ pc \in {"done", "stopped", "raised"}
    /\ page' = "none"
    /\ pc' = "idle"
    /\ source' = NoSource
    /\ current_prices_hk' = EmptyDF
    /\ current_prices_usa' = EmptyDF
    /\ fx_rate_hkd_to_usd' = None
    /\ metrics' = NoMetrics
    /\ selected_ticker' = "none"
    /\ historical_data' = EmptyTable
    /\ spy_data' = EmptyTable
    /\ portfolio_data' = <<>>
    /\ totals' = NoTotals
    /\ ui' = <<>>
    /\ exc' = "none"
    /\ refetched' = {}
    /\ UNCHANGED holdings

\* the run is over and the next render comes at least ttl seconds later: every
\* entry of the cache has expired by then
Finish ==
    /\ ScriptEnd
    /\ cache' = NoCache
    /\ since' = LongAgo

\* the run is over and the next render may follow at once
Rerun ==
    /\ ScriptEnd
    /\ UNCHANGED <<cache, since>>

Min(a, b) == IF a < b THEN a ELSE b

\* an entry of the cache, seconds later; an entry that reached ttl is dropped
Aged(entry, seconds, empty) ==
    IF entry.stored /\ entry.age + seconds < ttl
    THEN [entry EXCEPT !.age = @ + seconds]
    ELSE NoEntry(empty)

\* ttl / TicksPerInterval seconds pass between two renders
Tick ==
    /\ pc = "idle"
    /\ LET seconds == ttl \div TicksPerInterval
       IN  /\ since' = [q \in Queries |-> Min(since[q] + seconds, ttl)]
           /\ cache' = [hk |-> Aged(cache.hk, seconds, NoData),
                        usa |-> Aged(cache.usa, seconds, NoData),
                        fx |-> Aged(cache.fx, seconds, None)]
    /\ UNCHANGED <<page, pc, source, current_prices_hk, current_prices_usa,
                   fx_rate_hkd_to_usd, metrics, selected_ticker, historical_data, spy_data,
                   portfolio_data, totals, ui, exc, refetched, holdings>>

Next ==
    \/ GeneralDownload
    \/ GeneralCalculate
    \/ GeneralRender
    \/ HKDownload
    \/ HKProcess
    \/ HKTotals
    \/ USADownload
    \/ USAProcess
    \/ USATotals
    \/ DetailDownload
    \/ DetailProcess
    \/ Finish

\* renders at least ttl seconds apart, each against every answer of the source
Spec == Init /\ [][Next]_vars

\* the tickers the detail page is asked for in CacheSpec
SteadyTickers == {"VOO", "1211.HK"}

GeneralDownloadSteady ==
    GeneralDownloadFrom(SteadyPriceResponses(portfolio_hk, purchase_prices_hk),
                        SteadyPriceResponses(portfolio_usa, purchase_prices_usa),
                        SteadyTableResponses(FxQuotes))

HKDownloadSteady ==
    HKDownloadFrom(SteadyPriceResponses(portfolio_hk, purchase_prices_hk),
                   SteadyTableResponses(FxQuotes))

USADownloadSteady == USADownloadFrom(SteadyPriceResponses(portfolio_usa, purchase_prices_usa))

DetailDownloadSteady ==
    DetailDownloadFrom(SteadyTickers,
                       [t \in SteadyTickers |-> SteadyTableResponses(HistoryQuotes(t))],
                       SteadyTableResponses(SpyQuotes))

CacheNext ==
    \/ GeneralDownloadSteady
    \/ GeneralCalculate
    \/ GeneralRender
    \/ HKDownloadSteady
    \/ HKProcess
    \/ HKTotals
    \/ USADownloadSteady
    \/ USAProcess
    \/ USATotals
    \/ DetailDownloadSteady
    \/ DetailProcess
    \/ Rerun
    \/ Tick

\* renders at any distance in time, against a source that raises or quotes
\* every ticker
CacheSpec == Init /\ [][CacheNext]_vars

(***************************************************************************)
(* Vocabulary of the properties.                                           *)
(***************************************************************************)
HasElem(kind, label) == \E i \in 1..Len(ui) : ui[i].kind = kind /\ ui[i].label = label

ElemValue(kind, label) ==
    ui[CHOOSE i \in 1..Len(ui) : ui[i].kind = kind /\ ui[i].label = label].value

\* calculate_portfolio_metrics took its except branch
ErrorPath == HasElem("error", "Error calculating portfolio metrics")

\* calculate_portfolio_metrics has returned
Calculated == page = "general" /\ pc \in {"render", "done", "raised"}

\* the per-ticker loop of a market page has run (to its end or to an exception)
Processed(p) == page = p /\ pc \in {"totals", "done", "raised"}

RowOf(t) == portfolio_data[CHOOSE i \in 1..Len(portfolio_data) : portfolio_data[i].Ticker = t]

HasRow(t) == \E i \in 1..Len(portfolio_data) : portfolio_data[i].Ticker = t

\* the sum of f[t] over the tickers in S, in no particular order
RECURSIVE SumOver(_, _)
SumOver(S, f) ==
    IF S = {} THEN Zero
    ELSE LET t == CHOOSE x \in S : TRUE
         IN  Add(f[t], SumOver(S \ {t}, f))

\* invested value of a holding: shares x purchase price, in USD
InvestedOf(shares, purchase, mult) ==
    [t \in DOMAIN shares |-> Mul(Mul(shares[t], purchase[t]), mult)]

\* percentage change of current relative to invested:
\* (current - invested) / invested x 100
RatioPerf(current, invested) == Mul(Div(Sub(current, invested), invested), Hundred)

HKTickers == Range(portfolio_hk)
USATickers == Range(portfolio_usa)

\* the table has a usable quote for every ticker of the list
AllQuoted(frame, tickers) ==
    /\ frame.cols = tickers /\ frame.rows > 0
    /\ \A t \in tickers : \A i \in 1..frame.rows : frame.cell[t][i].k = "num"

\* current value of each ticker of a market the way the general page values
\* it: the latest fetched quote, or the purchase price when the table has no
\* column for the ticker
GeneralValueOf(shares, purchase, frame, mult) ==
    [t \in DOMAIN shares |->
        IF t \in frame.cols
        THEN Mul(Mul(shares[t], IF frame.rows > 0 THEN frame.cell[t][frame.rows] ELSE ES), mult)
        ELSE Mul(Mul(shares[t], purchase[t]), mult)]

\* every cell of the table is a number
Numeric(frame) ==
    \A t \in frame.cols : \A i \in 1..frame.rows : frame.cell[t][i].k = "num"

\* the FX source yields no rate: the fetch raises or returns empty data
FxUnavailable == source.fx.raised \/ source.fx.tb.rows = 0

\* some present column ends in a cell that is not a number, which makes the
\* aggregation of the general page raise an exception its inner try lets through
Unexpected(frame) ==
    \E t \in frame.cols : frame.rows > 0 /\ frame.cell[t][frame.rows].k = "obj"

(***************************************************************************)
(* C1.  On every page that values holdings (general, HK, USA), a ticker    *)
(* whose price is missing from the fetched table is valued at its purchase *)
(* price (performance 0), a warning is emitted for it, and the run goes on *)
(* with the fetched prices of the other tickers.                           *)
(* Stated as claimed; the HK page raises KeyError and the USA page values  *)
(* the ticker at 0.                                                        *)
(***************************************************************************)
C1_MissingPriceFallsBack ==
    /\ (Processed("usa") /\ Numeric(current_prices_usa)) =>
          \A t \in USATickers \ current_prices_usa.cols :
              /\ exc = "none"
              /\ HasElem("warning", t)
              /\ HasRow(t)
              /\ RowOf(t).current_price = purchase_prices_usa[t]
              /\ RowOf(t).performance = Zero
    /\ (Processed("hk") /\ Numeric(current_prices_hk)) =>
          \A t \in HKTickers \ current_prices_hk.cols :
              /\ exc = "none"
              /\ HasElem("warning", t)
              /\ HasRow(t)
              /\ RowOf(t).current_price = Mul(purchase_prices_hk[t], fx_rate_hkd_to_usd)
              /\ RowOf(t).performance = Zero
    /\ (Calculated /\ ~ErrorPath) =>
          /\ \A t \in (HKTickers \ current_prices_hk.cols) \cup
                      (USATickers \ current_prices_usa.cols) : HasElem("warning", t)
          /\ metrics.total_current_hk =
                SumOver(HKTickers, GeneralValueOf(shares_owned_hk, purchase_prices_hk,
                                                  current_prices_hk, fx_rate_hkd_to_usd))
          /\ metrics.total_current_usa =
                SumOver(USATickers, GeneralValueOf(shares_owned_usa, purchase_prices_usa,
                                                   current_prices_usa, One))

(***************************************************************************)
(* C2.  Whenever an invested value is 0, the performance computed for it   *)
(* is 0 and no division by zero is performed, in every performance         *)
(* computation of every page.                                              *)
(* Stated as claimed; the Total Return of the general page divides by the  *)
(* total_invested of 0 that the error result carries.                      *)
(***************************************************************************)
C2_ZeroInvestedGivesZero ==
    /\ exc # "ZeroDivisionError"
    /\ (Calculated /\ metrics.total_invested = Zero) =>
          /\ metrics.performance_hk = Zero
          /\ metrics.performance_usa = Zero
          /\ pc \in {"done", "raised"} =>
                /\ HasElem("metric", "Total Return")
                /\ ElemValue("metric", "Total Return") = Zero
    /\ \A i \in 1..Len(portfolio_data) :
          portfolio_data[i].invested_value = Zero => portfolio_data[i].performance = Zero
    /\ totals.total_invested = Zero => totals.total_performance = Zero

(***************************************************************************)
(* C3.  Nothing is fatal: whatever fails, a page render runs to completion *)
(* and never ends in an exception; in particular the general page renders  *)
(* its metrics after calculate_portfolio_metrics returned the all-zero     *)
(* error result.                                                           *)
(* Stated as claimed.                                                      *)
(***************************************************************************)
C3_NothingFatal ==
    /\ exc = "none"
    /\ pc # "raised"
    /\ (page = "general" /\ pc \in {"done", "raised"} /\ ErrorPath) =>
          /\ HasElem("metric", "Total Return")
          /\ HasElem("metric", "Total Investment")
          /\ HasElem("metric", "Current Value")

(***************************************************************************)
(* C4.  Whenever the FX source yields no rate (the fetch raises or returns *)
(* empty data), the HKD-to-USD multiplier is exactly 0.128 on the general  *)
(* page and on the HK page, and every HKD conversion of the run uses it.   *)
(* Stated as claimed; the HK page uses 1 / 7.85 for an empty FX table.     *)
(***************************************************************************)
C4_FallbackRate ==
    /\ (page \in {"general", "hk"} /\ FxUnavailable) => fx_rate_hkd_to_usd = FallbackRate
    /\ (page = "general" /\ pc = "done" /\ FxUnavailable) =>
          ElemValue("dataframe", "Sales Record") = Mul(sales_total_hkd, FallbackRate)
    /\ (Calculated /\ ~ErrorPath /\ FxUnavailable) =>
          metrics.total_invested =
              Add(SumOver(HKTickers, InvestedOf(shares_owned_hk, purchase_prices_hk, FallbackRate)),
                  SumOver(USATickers, InvestedOf(shares_owned_usa, purchase_prices_usa, One)))
    /\ (Processed("hk") /\ FxUnavailable) =>
          \A i \in 1..Len(portfolio_data) :
              LET r == portfolio_data[i]
              IN  /\ r.purchase_price = Mul(purchase_prices_hk[r.Ticker], FallbackRate)
                  /\ r.current_price = Mul(current_prices_hk.cell[r.Ticker][1], FallbackRate)

(***************************************************************************)
(* C5.  An unexpected exception raised inside calculate_portfolio_metrics  *)
(* is not propagated: the function emits an error message and returns a    *)
(* result whose six fields are all 0, keeping no partially computed value. *)
(***************************************************************************)
C5_ErrorResultAllZero ==
    (Calculated /\ (Unexpected(current_prices_hk) \/ Unexpected(current_prices_usa))) =>
        /\ ErrorPath
        /\ \A f \in DOMAIN metrics : metrics[f] = Zero
        /\ pc = "render" => exc = "none"

\* the exception is raised in the USA loop, after the HK market was valued
\* from fetched quotes
C5_Witness ==
    /\ page = "general" /\ pc = "render"
    /\ AllQuoted(current_prices_hk, HKTickers)
    /\ Unexpected(current_prices_usa)
    /\ ErrorPath
    /\ metrics.total_current_hk = Zero

(***************************************************************************)
(* C6.  When the price source returns an empty result, the caller values   *)
(* every ticker of the query at its purchase price, so the market's        *)
(* current value equals its invested value and its performance is 0.       *)
(* Stated as claimed; the general page sums empty Series when the table    *)
(* has columns but no rows, and the HK and USA pages stop with an error.   *)
(***************************************************************************)
C6_EmptyResultValuedAtPurchase ==
    /\ (Calculated /\ ~ErrorPath /\ IsEmpty(source.hk.df)) =>
          /\ metrics.total_current_hk =
                SumOver(HKTickers, InvestedOf(shares_owned_hk, purchase_prices_hk,
                                              fx_rate_hkd_to_usd))
          /\ metrics.performance_hk = Zero
    /\ (Calculated /\ ~ErrorPath /\ IsEmpty(source.usa.df)) =>
          /\ metrics.total_current_usa =
                SumOver(USATickers, InvestedOf(shares_owned_usa, purchase_prices_usa, One))
          /\ metrics.performance_usa = Zero
    /\ (page = "hk" /\ pc # "process" /\ IsEmpty(source.hk.df)) =>
          /\ pc = "done"
          /\ totals.total_current = totals.total_invested
          /\ totals.total_performance = Zero
    /\ (page = "usa" /\ pc # "process" /\ IsEmpty(source.usa.df)) =>
          /\ pc = "done"
          /\ totals.total_current = totals.total_invested
          /\ totals.total_performance = Zero

\* the sum of a column of portfolio_data, taken over the set of its rows
RowsSum(column) ==
    SumOver(1..Len(portfolio_data), [i \in 1..Len(portfolio_data) |-> portfolio_data[i][column]])

(***************************************************************************)
(* C7.  In every evaluation that does not take the error path, the         *)
(* aggregate invested value is the sum over the tickers of shares x        *)
(* purchase price (in USD) and the aggregate current value is the sum of   *)
(* the per-ticker current values; on the general page total_invested and   *)
(* total_current are the HK sum plus the USA sum, and total_current =      *)
(* total_current_hk + total_current_usa.                                   *)
(***************************************************************************)
C7_AggregatesAreSums ==
    /\ (Calculated /\ ~ErrorPath) =>
          /\ metrics.total_invested =
                Add(SumOver(HKTickers, InvestedOf(shares_owned_hk, purchase_prices_hk,
                                                  fx_rate_hkd_to_usd)),
                    SumOver(USATickers, InvestedOf(shares_owned_usa, purchase_prices_usa, One)))
          /\ metrics.total_current_hk =
                SumOver(HKTickers, GeneralValueOf(shares_owned_hk, purchase_prices_hk,
                                                  current_prices_hk, fx_rate_hkd_to_usd))
          /\ metrics.total_current_usa =
                SumOver(USATickers, GeneralValueOf(shares_owned_usa, purchase_prices_usa,
                                                   current_prices_usa, One))
          /\ metrics.total_current = Add(metrics.total_current_hk, metrics.total_current_usa)
    /\ (page = "hk" /\ pc = "done") =>
          /\ Len(portfolio_data) = Len(portfolio_hk)
          /\ totals.total_invested =
                SumOver(HKTickers, InvestedOf(shares_owned_hk, purchase_prices_hk,
                                              fx_rate_hkd_to_usd))
          /\ totals.total_invested = RowsSum("invested_value")
          /\ totals.total_current = RowsSum("current_value")
    /\ (page = "usa" /\ pc = "done") =>
          /\ Len(portfolio_data) = Len(portfolio_usa)
          /\ totals.total_invested =
                SumOver(USATickers, InvestedOf(shares_owned_usa, purchase_prices_usa, One))
          /\ totals.total_invested = RowsSum("invested_value")
          /\ totals.total_current = RowsSum("current_value")
    /\ (page = "detail" /\ pc = "done") =>
          /\ Len(portfolio_data) = Len(positions[selected_ticker])
          /\ totals.total_invested = RowsSum("invested_value")
          /\ totals.total_current = RowsSum("current_value")

\* the general page has summed both markets, one USA ticker valued by the
\* fallback and the others from fetched quotes
C7_Witness ==
    /\ page = "general" /\ pc = "done" /\ ~ErrorPath
    /\ AllQuoted(current_prices_hk, HKTickers)
    /\ current_prices_usa.rows > 0
    /\ Cardinality(USATickers \ current_prices_usa.cols) = 1
    /\ IsNum(metrics.total_current)
    /\ metrics.total_current # metrics.total_invested

(***************************************************************************)
(* C8.  Every aggregate performance figure (per market and Total Return on *)
(* the general page, the market total of the HK and USA pages, the         *)
(* per-ticker total over the purchase lots on the detail page) is          *)
(* (aggregate current / aggregate invested - 1) x 100, not the mean of the *)
(* per-ticker or per-lot percentages.  The figures are those of runs that  *)
(* computed them from numbers: not the error result, and for Total Return  *)
(* not a total_current that is an empty Series.                            *)
(***************************************************************************)
C8_AggregatePerformanceIsRatio ==
    /\ (Calculated /\ ~ErrorPath) =>
          /\ metrics.performance_hk =
                RatioPerf(metrics.total_current_hk,
                          SumOver(HKTickers, InvestedOf(shares_owned_hk, purchase_prices_hk,
                                                        fx_rate_hkd_to_usd)))
          /\ metrics.performance_usa =
                RatioPerf(metrics.total_current_usa,
                          SumOver(USATickers, InvestedOf(shares_owned_usa, purchase_prices_usa, One)))
    /\ (page = "general" /\ HasElem("metric", "Total Return") /\ IsNum(metrics.total_current)) =>
          ElemValue("metric", "Total Return") =
              RatioPerf(metrics.total_current, metrics.total_invested)
    /\ (page \in {"hk", "usa", "detail"} /\ pc = "done") =>
          /\ totals.total_performance = RatioPerf(totals.total_current, totals.total_invested)
          /\ ElemValue("metric", "Performance") = totals.total_performance

\* a finished USA page whose total performance differs from the mean of its
\* rows' percentages
C8_Witness ==
    /\ page = "usa" /\ pc = "done"
    /\ AllQuoted(current_prices_usa, USATickers)
    /\ totals.total_performance # ColumnMean(portfolio_data, "performance")
    /\ totals.total_performance # Zero

\* HKD-to-USD multipliers the pages can use
HkdToUsdRates ==
    {FallbackRate, Div(One, DefaultUsdToHkd)} \cup {Div(One, FxQuotes[i]) : i \in 1..Len(FxQuotes)}

(***************************************************************************)
(* C9.  Every invested and current value a page reports is in USD: for the *)
(* HKD holdings (1211.HK, 0700.HK) purchase price and current price are    *)
(* multiplied by the HKD-to-USD rate before they are summed or shown, on   *)
(* the general, HK and detail pages; USD holdings are not converted.       *)
(* Stated as claimed; the detail page reports the HKD amounts unconverted. *)
(***************************************************************************)
C9_ReportedInUSD ==
    /\ (Calculated /\ ~ErrorPath) =>
          metrics.total_invested =
              Add(SumOver(HKTickers, InvestedOf(shares_owned_hk, purchase_prices_hk,
                                                fx_rate_hkd_to_usd)),
                  SumOver(USATickers, InvestedOf(shares_owned_usa, purchase_prices_usa, One)))
    /\ Processed("hk") =>
          \A i \in 1..Len(portfolio_data) :
              LET r == portfolio_data[i]
              IN  /\ r.invested_value =
                        Mul(Mul(shares_owned_hk[r.Ticker], purchase_prices_hk[r.Ticker]),
                            fx_rate_hkd_to_usd)
                  /\ r.current_value =
                        Mul(Mul(shares_owned_hk[r.Ticker], current_prices_hk.cell[r.Ticker][1]),
                            fx_rate_hkd_to_usd)
    /\ (page = "detail" /\ pc = "done" /\ selected_ticker \in USATickers) =>
          totals.total_invested = LotsInvested(positions[selected_ticker], 1)
    /\ (page = "detail" /\ pc = "done" /\ selected_ticker \in HKTickers) =>
          \E rate \in HkdToUsdRates :
              /\ totals.total_invested = Mul(LotsInvested(positions[selected_ticker], 1), rate)
              /\ totals.total_current =
                    Mul(Mul(SharesSum(positions[selected_ticker], 1),
                            historical_data.close[historical_data.rows]), rate)

(***************************************************************************)
(* C10.  For every ticker with an available current price and invested     *)
(* value > 0, the HK and USA pages (and the detail page for a USD holding, *)
(* per purchase lot) report invested = shares x purchase price, current =  *)
(* shares x current price and performance = (current / invested - 1) x     *)
(* 100, prices converted by the FX multiplier on the HK page; shares = 2,  *)
(* purchase = 100, current = 150 gives 200, 300 and 50.                    *)
(***************************************************************************)
C10_PerTickerValuation ==
    /\ Processed("usa") =>
          \A i \in 1..Len(portfolio_data) :
              LET r == portfolio_data[i]
              IN  r.Ticker \in current_prices_usa.cols =>
                    /\ \E j \in 1..current_prices_usa.rows :
                          r.current_price = current_prices_usa.cell[r.Ticker][j]
                    /\ r.invested_value =
                          Mul(shares_owned_usa[r.Ticker], purchase_prices_usa[r.Ticker])
                    /\ r.current_value = Mul(shares_owned_usa[r.Ticker], r.current_price)
                    /\ r.performance = RatioPerf(r.current_value, r.invested_value)
    /\ Processed("hk") =>
          \A i \in 1..Len(portfolio_data) :
              LET r == portfolio_data[i]
              IN  /\ \E j \in 1..current_prices_hk.rows :
                        r.current_price =
                            Mul(current_prices_hk.cell[r.Ticker][j], fx_rate_hkd_to_usd)
                  /\ r.invested_value =
                        Mul(shares_owned_hk[r.Ticker],
                            Mul(purchase_prices_hk[r.Ticker], fx_rate_hkd_to_usd))
                  /\ r.current_value = Mul(shares_owned_hk[r.Ticker], r.current_price)
                  /\ r.performance = RatioPerf(r.current_value, r.invested_value)
    /\ (page = "detail" /\ pc = "done" /\ selected_ticker \in USATickers) =>
          \A i \in 1..Len(portfolio_data) :
              LET r == portfolio_data[i]
                  lot == positions[selected_ticker][i]
              IN  /\ \E j \in 1..historical_data.rows : r.current_price = historical_data.close[j]
                  /\ r.invested_value = Mul(lot.shares, lot.price)
                  /\ r.current_value = Mul(lot.shares, r.current_price)
                  /\ r.performance = RatioPerf(r.current_value, r.invested_value)
    /\ (page = "usa" /\ pc = "done") =>
          LET r == usa_value_row("X", Num(2, 1), Num(100, 1), Num(150, 1))
          IN  r.invested_value = Num(200, 1) /\ r.current_value = Num(300, 1)
              /\ r.performance = Num(50, 1)

\* the USA page has valued VOO (2 shares) at a fetched quote one and a half
\* times its purchase price: performance 50
C10_Witness ==
    /\ page = "usa" /\ pc = "done"
    /\ "VOO" \in current_prices_usa.cols
    /\ RowOf("VOO").shares = Num(2, 1)
    /\ RowOf("VOO").current_price = Mul(purchase_prices_usa["VOO"], Num(3, 2))
    /\ RowOf("VOO").current_value = Mul(RowOf("VOO").invested_value, Num(3, 2))
    /\ RowOf("VOO").performance = Num(50, 1)

(***************************************************************************)
(* C11.  The current price used for a ticker is the latest adjusted close: *)
(* when the fetched table has more than one row, every page values each    *)
(* quoted ticker at the last (most recent) row.                            *)
(* Stated as claimed; the HK and USA pages read the first row (iloc[0]).   *)
(***************************************************************************)
C11_LatestRowIsCurrentPrice ==
    /\ (Calculated /\ ~ErrorPath /\ current_prices_hk.rows > 1) =>
          metrics.total_current_hk =
              SumOver(HKTickers,
                      [t \in HKTickers |->
                          IF t \in current_prices_hk.cols
                          THEN Mul(Mul(shares_owned_hk[t],
                                       current_prices_hk.cell[t][current_prices_hk.rows]),
                                   fx_rate_hkd_to_usd)
                          ELSE Mul(Mul(shares_owned_hk[t], purchase_prices_hk[t]),
                                   fx_rate_hkd_to_usd)])
    /\ (page = "detail" /\ pc = "done" /\ historical_data.rows > 1) =>
          \A i \in 1..Len(portfolio_data) :
              portfolio_data[i].current_price = historical_data.close[historical_data.rows]
    /\ (Processed("usa") /\ current_prices_usa.rows > 1) =>
          \A i \in 1..Len(portfolio_data) :
              LET r == portfolio_data[i]
              IN  r.Ticker \in current_prices_usa.cols =>
                    r.current_price = current_prices_usa.cell[r.Ticker][current_prices_usa.rows]
    /\ (Processed("hk") /\ current_prices_hk.rows > 1) =>
          \A i \in 1..Len(portfolio_data) :
              LET r == portfolio_data[i]
              IN  r.current_price =
                      Mul(current_prices_hk.cell[r.Ticker][current_prices_hk.rows],
                          fx_rate_hkd_to_usd)

(***************************************************************************)
(* C12.  Over any sequence of page renders, each query to the price source *)
(* and to the FX source is sent at most once per interval of 3600 s: a     *)
(* render less than one interval after a fetch of the same query reuses    *)
(* the earlier result and sends nothing, on every page.                    *)
(* Stated as claimed; only the general page's fetches go through the       *)
(* cache, the HK, USA and detail pages ask the source on every render.     *)
(***************************************************************************)
C12_RefetchAtMostOncePerInterval ==
    /\ refetched = {}
    /\ (page = "general" /\ cache.hk.age > 0) =>
          source.hk = NoResponse /\ current_prices_hk = cache.hk.value.data
    /\ (page = "general" /\ cache.usa.age > 0) =>
          source.usa = NoResponse /\ current_prices_usa = cache.usa.value.data
    /\ (page = "general" /\ cache.fx.age > 0) =>
          source.fx = NoTableResponse /\ fx_rate_hkd_to_usd = general_fx_rate(cache.fx.value)

(***************************************************************************)
(* C13.  The holdings configuration (ticker lists, shares owned, purchase  *)
(* prices, purchase lots) is immutable: no evaluation of any page, on the  *)
(* success path, the fallback path or the error path, changes any of these *)
(* mappings, so every evaluation sees the holdings as they were entered.   *)
(***************************************************************************)
C13_HoldingsImmutable == holdings = Holdings

\* calculate_portfolio_metrics has substituted the purchase price for a
\* ticker of the HK market and then taken its except branch
C13_Witness ==
    /\ page = "general" /\ pc \in {"render", "raised"}
    /\ \E t \in HKTickers : HasElem("warning", t)
    /\ ErrorPath
    /\ \A f \in DOMAIN metrics : metrics[f] = Zero
    /\ holdings = Holdings

\* the run has emitted the load error and nothing else, computed no row and no
\* total, and ended without an exception
StoppedOnError ==
    /\ pc = "stopped"
    /\ ui = <<LoadError>>
    /\ portfolio_data = <<>>
    /\ totals = NoTotals
    /\ exc = "none"

\* the fetch of a table raised or returned no data
NoPrices(resp) == resp.raised \/ IsEmpty(resp.df)

NoTable(resp) == resp.raised \/ resp.tb.rows = 0

(***************************************************************************)
(* C14.  On the HK, USA and detail pages, when the fetched price data is   *)
(* empty (on the detail page: the selected ticker's data or the SPY data), *)
(* the page emits exactly one error message and stops: no per-ticker value *)
(* is computed and no metric, chart or table is rendered after the error.  *)
(***************************************************************************)
C14_EmptyDataStops ==
    /\ (page = "hk" /\ pc # "process" /\ NoPrices(source.hk)) => StoppedOnError
    /\ (page = "usa" /\ pc # "process" /\ NoPrices(source.usa)) => StoppedOnError
    /\ (page = "detail" /\ pc # "process" /\ (NoTable(source.hist) \/ NoTable(source.spy))) =>
          StoppedOnError
    /\ pc = "stopped" =>
          ~ENABLED (HKProcess \/ HKTotals \/ USAProcess \/ USATotals \/ DetailProcess)

\* the HK page has stopped on a table that has both ticker columns but no
\* rows, the FX rate having been fetched
C14_Witness ==
    /\ page = "hk" /\ pc = "stopped"
    /\ ~source.hk.raised
    /\ source.hk.df.cols = HKTickers /\ source.hk.df.rows = 0
    /\ fx_rate_hkd_to_usd \in HkdToUsdRates
    /\ ui = <<LoadError>>

\* what the HK page computes from the answer resp of the source and the
\* multiplier fx: [rows, exc] of its loop, then [totals, exc] of its totals
HKPageLoop(resp, fx) ==
    hk_loop(page_download_data(resp), fx, 1, [rows |-> <<>>, exc |-> "none"])

HKPageTotals(resp, fx) == hk_totals(HKPageLoop(resp, fx).rows)

\* the same for the USA page
USAPageLoop(resp) == usa_loop(page_download_data(resp), 1, [rows |-> <<>>, exc |-> "none"])

USAPageTotals(resp) == usa_totals(USAPageLoop(resp).rows)

\* the answer carries a non-empty table of numbers
Priced(resp) == ~resp.raised /\ ~IsEmpty(resp.df) /\ Numeric(resp.df)

(***************************************************************************)
(* C15.  The general page and the market pages agree: for the same         *)
(* holdings, the same fetched price data (including data that lacks some   *)
(* ticker or has several rows per ticker) and the same FX multiplier, the  *)
(* general page's HK total current value equals the HK page's total        *)
(* current value, and its USA total current value and USA performance      *)
(* equal the USA page's totals.                                            *)
(* Stated as claimed; the market pages read the first row and have no      *)
(* purchase-price fallback for a ticker the data lacks.                    *)
(***************************************************************************)
C15_PagesAgree ==
    /\ (Calculated /\ ~ErrorPath /\ Priced(source.hk)) =>
          /\ HKPageLoop(source.hk, fx_rate_hkd_to_usd).exc = "none"
          /\ metrics.total_current_hk =
                HKPageTotals(source.hk, fx_rate_hkd_to_usd).totals.total_current
    /\ (Calculated /\ ~ErrorPath /\ Priced(source.usa)) =>
          /\ USAPageLoop(source.usa).exc = "none"
          /\ metrics.total_current_usa = USAPageTotals(source.usa).total_current
          /\ metrics.performance_usa = USAPageTotals(source.usa).total_performance

=============================================================================
